---- MODULE Spec2Model ----
(***************************************************************************)
(* Model of the React component App (rag-frontend/src/App.js): the chat    *)
(* front end of the RAG system, together with the requests it has in       *)
(* flight to the backend (/health, /index, /ask, /clear-memory).           *)
(*                                                                         *)
(* Every handler of the component is one action up to its first await;     *)
(* the code after the await (the continuation that handles the response)   *)
(* is a second action.  A continuation reads the values its closure        *)
(* captured when the handler was invoked (files, question, conversation),  *)
(* so every request in flight carries those captured values.  checkHealth, *)
(* which changes nothing before its await and captures nothing, is one     *)
(* action.                                                                 *)
(*                                                                         *)
(* The backend (rag.py, fast_api.py) is not part of the sources; the only  *)
(* backend state kept here is the set of documents its index holds, as     *)
(* the design document describes the Index operation.                      *)
(***************************************************************************)
EXTENDS Integers, Sequences, FiniteSets

\* ------------------------------------------------------------------ bounds
MaxAsks == 2       \* /ask requests issued in one run
MaxInFlight == 2   \* requests in flight at one time

\* ------------------------------------------------------------- value sets
FileNames == {"a", "b"}
\* A File object; only its name is read (file.name).
F(n) == [name |-> n]
\* The selections of the file input: none, one file, two files of the same
\* name (from different folders), two files of different names.
FileSeqs == {<<>>, <<F("a")>>, <<F("a"), F("a")>>, <<F("a"), F("b")>>}

\* A question is a sequence of characters; " " is white space.
Questions == {<<>>, <<" ">>, <<"q">>}

\* data.status of a /health response body
HealthStatuses == {"healthy", "degraded"}

Msg(m, a) == [msg |-> m, arg |-> a]

\* How a request ends: "ok" (response.ok), "error" (a non-ok response),
\* "throw" (fetch or response.json() threw).
Outcomes == {"ok", "error", "throw"}

VARIABLES
  files,             \* useState([])         selected File objects
  question,          \* useState('')         text of the question input
  conversation,      \* useState([])         the turns shown in the chat
  loading,           \* useState(false)
  status,            \* useState('')         the status message
  backendStatus,     \* useState('unknown')
  currentDocuments,  \* useState([])         names of the documents shown
  indexReqs,         \* /index requests in flight, with the captured files
  askReqs,           \* /ask requests in flight, with the captured closure
  resetReqs,         \* number of /clear-memory requests in flight
  nextSeq,           \* number of /ask requests issued so far
  backendDocs,       \* names of the documents the backend index holds
  forgotten          \* history: turns shown when a reset succeeded

vars == <<files, question, conversation, loading, status, backendStatus,
          currentDocuments, indexReqs, askReqs, resetReqs,
          nextSeq, backendDocs, forgotten>>

ui == <<files, question, conversation, loading, status, backendStatus,
        currentDocuments>>
net == <<indexReqs, askReqs, resetReqs>>

\* ---------------------------------------------------------------- helpers
IsSpace(c) == c = " "

RECURSIVE TrimStart(_)
TrimStart(s) ==
  IF s # <<>> /\ IsSpace(Head(s)) THEN TrimStart(Tail(s)) ELSE s

RECURSIVE TrimEnd(_)
TrimEnd(s) ==
  IF s # <<>> /\ IsSpace(s[Len(s)]) THEN TrimEnd(SubSeq(s, 1, Len(s) - 1))
  ELSE s

\* String.prototype.trim
Trim(s) == TrimEnd(TrimStart(s))

\* !question.trim()
IsBlank(q) == Trim(q) = <<>>

\* the requests in flight that carry a handler's closure or change state
InFlight == resetReqs + Len(indexReqs) + Len(askReqs)
CanIssue == InFlight < MaxInFlight

RemoveAt(s, i) == SubSeq(s, 1, i - 1) \o SubSeq(s, i + 1, Len(s))

Range(s) == {s[i] : i \in 1..Len(s)}

\* ------------------------------------------------------------------- Init
\* The state after the component is mounted; the /health request of the
\* mount effect has not been answered yet.
Init ==
  /\ files = <<>>
  /\ question = <<>>
  /\ conversation = <<>>
  /\ loading = FALSE
  /\ status = Msg("", "")
  /\ backendStatus = "unknown"
  /\ currentDocuments = <<>>
  /\ indexReqs = <<>>
  /\ askReqs = <<>>
  /\ resetReqs = 0
  /\ nextSeq = 0
  /\ backendDocs = {}
  /\ forgotten = {}

\* A handler whose guard fails: setStatus(message); return
refuse(message) ==
  /\ status' = message
  /\ UNCHANGED <<files, question, conversation, loading, backendStatus,
                 currentDocuments, net, nextSeq, backendDocs, forgotten>>

\* ------------------------------------------------------------ checkHealth
\* checkHealth, called when the component is mounted and by the Refresh
\* button, with the handling of its response; thrown = fetch or
\* response.json() threw, dataStatus = data.status.  The handler changes no
\* state before its await and its request captures nothing, so the request
\* and the handling of its response are one step.
checkHealth(thrown, dataStatus) ==
  /\ IF thrown
       THEN /\ backendStatus' = "error"
            /\ status' = Msg("Backend Error: ", "error.message")
       ELSE /\ backendStatus' = dataStatus
            /\ status' = Msg("Backend: ", dataStatus)
  /\ UNCHANGED <<files, question, conversation, loading, currentDocuments,
                 net, nextSeq, backendDocs, forgotten>>

\* ------------------------------------------------- file and question input
\* onChange of the file input: setFiles(Array.from(e.target.files))
setFiles(fs) ==
  /\ files' = fs
  /\ UNCHANGED <<question, conversation, loading, status, backendStatus,
                 currentDocuments, net, nextSeq, backendDocs, forgotten>>

\* onChange of the question textarea: setQuestion(e.target.value)
setQuestion(q) ==
  /\ question' = q
  /\ UNCHANGED <<files, conversation, loading, status, backendStatus,
                 currentDocuments, net, nextSeq, backendDocs, forgotten>>

\* ------------------------------------------------------------ uploadFiles
\* documentNames with the names sorted and without duplicates
documentNames_SortedUnique(fs) ==
  LET names == {fs[i].name : i \in 1..Len(fs)}
  IN  IF names = {"a", "b"} THEN <<"a", "b">>
      ELSE IF names = {} THEN <<>>
      ELSE <<CHOOSE n \in names : TRUE>>

\* files.map(file => file.name)
documentNames(fs) == [i \in 1..Len(fs) |-> fs[i].name]

\* uploadFiles up to its first await
uploadFiles ==
  IF files = <<>>
    THEN refuse(Msg("Please select files first", ""))
  ELSE IF backendStatus # "healthy"
    THEN refuse(Msg("Backend is not healthy. Please check the backend first.", ""))
  ELSE /\ CanIssue
       /\ loading' = TRUE
       /\ status' = Msg("Uploading and indexing documents...", "")
       /\ indexReqs' = Append(indexReqs, [files |-> files])
       /\ UNCHANGED <<files, question, conversation, backendStatus,
                      currentDocuments, askReqs, resetReqs,
                      nextSeq, backendDocs, forgotten>>

\* The backend's Index operation on the files of a request: the documents
\* at the positions in succeeded are indexed, the others fail, and the
\* index is rebuilt from the documents of this upload.
indexDocs(fs, succeeded) ==
  IF succeeded = {} THEN backendDocs ELSE {fs[p].name : p \in succeeded}

\* uploadFilesResume without its finally block: loading is cleared on the
\* ok branch only
uploadFilesResume_NoFinally(i, outcome, succeeded) ==
  /\ i \in 1..Len(indexReqs)
  /\ succeeded \subseteq 1..Len(indexReqs[i].files)
  /\ outcome = "ok" => succeeded # {}
  /\ outcome = "error" => succeeded = {}
  /\ indexReqs' = RemoveAt(indexReqs, i)
  /\ backendDocs' = indexDocs(indexReqs[i].files, succeeded)
  /\ IF outcome = "ok"
       THEN /\ currentDocuments' = documentNames(indexReqs[i].files)
            /\ status' = Msg("document(s) indexed successfully!", "")
            /\ conversation' = <<>>
            /\ files' = <<>>
            /\ loading' = FALSE
       ELSE /\ status' = IF outcome = "error"
                           THEN Msg("Error: ", "Failed to index documents")
                           ELSE Msg("Error: ", "error.message")
            /\ UNCHANGED <<currentDocuments, conversation, files, loading>>
  /\ UNCHANGED <<question, backendStatus, askReqs, resetReqs,
                 nextSeq, forgotten>>

\* uploadFilesResume with the file selection cleared whatever the outcome
uploadFilesResume_AlwaysClearsFiles(i, outcome, succeeded) ==
  /\ i \in 1..Len(indexReqs)
  /\ succeeded \subseteq 1..Len(indexReqs[i].files)
  /\ outcome = "ok" => succeeded # {}
  /\ outcome = "error" => succeeded = {}
  /\ indexReqs' = RemoveAt(indexReqs, i)
  /\ backendDocs' = indexDocs(indexReqs[i].files, succeeded)
  /\ IF outcome = "ok"
       THEN /\ currentDocuments' = documentNames(indexReqs[i].files)
            /\ status' = Msg("document(s) indexed successfully!", "")
            /\ conversation' = <<>>
       ELSE /\ status' = IF outcome = "error"
                           THEN Msg("Error: ", "Failed to index documents")
                           ELSE Msg("Error: ", "error.message")
            /\ UNCHANGED <<currentDocuments, conversation>>
  /\ files' = <<>>
  /\ loading' = FALSE
  /\ UNCHANGED <<question, backendStatus, askReqs, resetReqs,
                 nextSeq, forgotten>>

\* The code after the awaits of uploadFiles, for request i, together with
\* the backend's handling of the request.  outcome: "ok" (response.ok, at
\* least one document indexed), "error" (a non-ok response, nothing
\* indexed), "throw" (fetch or response.json() threw, whatever the backend
\* did).
uploadFilesResume(i, outcome, succeeded) ==
  /\ i \in 1..Len(indexReqs)
  /\ succeeded \subseteq 1..Len(indexReqs[i].files)
  /\ outcome = "ok" => succeeded # {}
  /\ outcome = "error" => succeeded = {}
  /\ indexReqs' = RemoveAt(indexReqs, i)
  /\ backendDocs' = indexDocs(indexReqs[i].files, succeeded)
  /\ IF outcome = "ok"
       THEN /\ currentDocuments' = documentNames(indexReqs[i].files)
            /\ status' = Msg("document(s) indexed successfully!", "")
            /\ conversation' = <<>>
            /\ files' = <<>>
       ELSE /\ status' = IF outcome = "error"
                           THEN Msg("Error: ", "Failed to index documents")
                           ELSE Msg("Error: ", "error.message")
            /\ UNCHANGED <<currentDocuments, conversation, files>>
  /\ loading' = FALSE
  /\ UNCHANGED <<question, backendStatus, askReqs, resetReqs,
                 nextSeq, forgotten>>

\* --------------------------------------------------------- removeDocument
\* prev.filter(doc => doc !== documentName)
filterOut(prev, documentName) == SelectSeq(prev, LAMBDA doc : doc # documentName)

\* currentDocuments.length === 1
isLastDocument(docs) == Len(docs) = 1

removeDocument(documentName) ==
  /\ currentDocuments' = filterOut(currentDocuments, documentName)
  /\ conversation' = IF isLastDocument(currentDocuments) THEN <<>>
                     ELSE conversation
  /\ status' = Msg("Document removed.", documentName)
  /\ UNCHANGED <<files, question, loading, backendStatus, net, nextSeq,
                 backendDocs, forgotten>>

\* ------------------------------------------------------------ askQuestion
\* The body of an ok /ask response: data.answer and data.sources, which
\* may be missing (hasSources = FALSE).  The backend answers from the
\* documents its index holds.
AskData ==
  {[answer |-> "answer", hasSources |-> FALSE, sources |-> <<>>],
   [answer |-> "answer", hasSources |-> TRUE, sources |-> <<>>]}
  \cup {[answer |-> "answer", hasSources |-> TRUE, sources |-> <<d>>] :
          d \in backendDocs}

\* data.sources || []
turnSources(data) == IF data.hasSources THEN data.sources ELSE <<>>

\* The turn object built at lines 130-135.  seq is the identity of the
\* object (one fresh object per handled response); the timestamp, which is
\* only displayed, is not modelled.
newTurn(req, data) ==
  [seq |-> req.seq, question |-> req.question, answer |-> data.answer,
   sources |-> turnSources(data)]

\* newConversation with the new turn put first: [turn, ...conversation]
newConversation_NewestFirst(conv, turn) == <<turn>> \o conv

\* newConversation as a sliding window of one turn: the oldest turn is
\* dropped when a turn is added
newConversation_Windowed(conv, turn) ==
  IF conv = <<>> THEN <<turn>> ELSE Append(Tail(conv), turn)

\* [...conversation, turn]
newConversation(conv, turn) == Append(conv, turn)

\* setLoading(true), the status message and the fetch of /ask, whose
\* continuation keeps the question and the conversation of this render
sendAsk ==
  /\ CanIssue
  /\ nextSeq < MaxAsks
  /\ loading' = TRUE
  /\ status' = Msg("Processing your question...", "")
  /\ nextSeq' = nextSeq + 1
  /\ askReqs' = Append(askReqs, [seq |-> nextSeq + 1, question |-> question,
                                 conversation |-> conversation])
  /\ UNCHANGED <<files, question, conversation, backendStatus,
                 currentDocuments, indexReqs, resetReqs,
                 backendDocs, forgotten>>

\* askQuestion without its check of currentDocuments
askQuestion_NoDocumentsCheck ==
  IF IsBlank(question)
    THEN refuse(Msg("Please enter a question", ""))
  ELSE IF backendStatus # "healthy"
    THEN refuse(Msg("Backend is not healthy. Please check the backend first.", ""))
  ELSE sendAsk

\* askQuestion testing the question without trimming it
askQuestion_NoTrim ==
  IF question = <<>>
    THEN refuse(Msg("Please enter a question", ""))
  ELSE IF backendStatus # "healthy"
    THEN refuse(Msg("Backend is not healthy. Please check the backend first.", ""))
  ELSE IF currentDocuments = <<>>
    THEN refuse(Msg("Please upload documents first before asking questions.", ""))
  ELSE sendAsk

\* askQuestion up to its first await
askQuestion ==
  IF IsBlank(question)
    THEN refuse(Msg("Please enter a question", ""))
  ELSE IF backendStatus # "healthy"
    THEN refuse(Msg("Backend is not healthy. Please check the backend first.", ""))
  ELSE IF currentDocuments = <<>>
    THEN refuse(Msg("Please upload documents first before asking questions.", ""))
  ELSE sendAsk

\* the parts of the continuation of askQuestion
askDone(i) ==
  /\ i \in 1..Len(askReqs)
  /\ askReqs' = RemoveAt(askReqs, i)
  /\ loading' = FALSE
  /\ UNCHANGED <<files, backendStatus, currentDocuments,
                 indexReqs, resetReqs, nextSeq, backendDocs, forgotten>>

askFailed(outcome) ==
  IF outcome = "error" THEN Msg("Error: ", "Failed to process question")
  ELSE Msg("Error: ", "error.message")

\* askQuestionResume with the turn recorded before response.ok is tested
askQuestionResume_TurnBeforeOkTest(i, outcome, data) ==
  /\ askDone(i)
  /\ IF outcome # "throw"
       THEN /\ conversation' =
                 Append(askReqs[i].conversation,
                        [seq |-> askReqs[i].seq,
                         question |-> askReqs[i].question,
                         answer |-> data.answer,
                         sources |-> IF data.hasSources THEN data.sources
                                     ELSE <<>>])
            /\ question' = IF outcome = "ok" THEN <<>> ELSE question
            /\ status' = IF outcome = "ok"
                           THEN Msg("Question answered successfully!", "")
                           ELSE askFailed(outcome)
       ELSE /\ status' = askFailed(outcome)
            /\ UNCHANGED <<conversation, question>>

\* the code after the awaits of askQuestion, for request i.
\* outcome: "ok" (response.ok), "error" (a non-ok response), "throw" (fetch
\* or response.json() threw)
askQuestionResume(i, outcome, data) ==
  /\ askDone(i)
  /\ IF outcome = "ok"
       THEN /\ conversation' =
                 newConversation(askReqs[i].conversation,
                                 newTurn(askReqs[i], data))
            /\ question' = <<>>
            /\ status' = Msg("Question answered successfully!", "")
       ELSE /\ status' = askFailed(outcome)
            /\ UNCHANGED <<conversation, question>>

\* -------------------------------------------------------------- resetChat
\* resetChat up to its first await
resetChat ==
  IF backendStatus # "healthy"
    THEN refuse(Msg("Backend is not healthy. Please check the backend first.", ""))
  ELSE /\ CanIssue
       /\ resetReqs' = resetReqs + 1
       /\ UNCHANGED <<ui, indexReqs, askReqs, nextSeq,
                      backendDocs, forgotten>>

\* resetChatResume as a reset of the whole session: an ok response also
\* empties the document list
resetChatResume_ClearsDocuments(outcome) ==
  /\ resetReqs > 0
  /\ resetReqs' = resetReqs - 1
  /\ IF outcome = "ok"
       THEN /\ conversation' = <<>>
            /\ currentDocuments' = <<>>
            /\ status' = Msg("Chat reset successfully! AI has forgotten the previous conversation.", "")
            /\ forgotten' = forgotten \cup {conversation[k].seq :
                                              k \in 1..Len(conversation)}
       ELSE /\ status' = IF outcome = "error"
                           THEN Msg("Error: ", "Failed to reset chat")
                           ELSE Msg("Error: ", "error.message")
            /\ UNCHANGED <<conversation, forgotten, currentDocuments>>
  /\ UNCHANGED <<files, question, loading, backendStatus,
                 indexReqs, askReqs, nextSeq, backendDocs>>

\* the code after the awaits of resetChat; outcome as for askQuestionResume
resetChatResume(outcome) ==
  /\ resetReqs > 0
  /\ resetReqs' = resetReqs - 1
  /\ IF outcome = "ok"
       THEN /\ conversation' = <<>>
            /\ status' = Msg("Chat reset successfully! AI has forgotten the previous conversation.", "")
            /\ forgotten' = forgotten \cup {conversation[k].seq :
                                              k \in 1..Len(conversation)}
       ELSE /\ status' = IF outcome = "error"
                           THEN Msg("Error: ", "Failed to reset chat")
                           ELSE Msg("Error: ", "error.message")
            /\ UNCHANGED <<conversation, forgotten>>
  /\ UNCHANGED <<files, question, loading, backendStatus, currentDocuments,
                 indexReqs, askReqs, nextSeq, backendDocs>>

\* ---------------------------------------------------------- specification
\* the continuations of the requests in flight
Responses ==
  \/ \E i \in 1..Len(indexReqs), o \in Outcomes :
       \E succeeded \in SUBSET (1..Len(indexReqs[i].files)) :
         uploadFilesResume(i, o, succeeded)
  \/ \E i \in 1..Len(askReqs), o \in Outcomes, data \in AskData :
       askQuestionResume(i, o, data)
  \/ \E o \in Outcomes : resetChatResume(o)

\* Spec: the component as it runs in the browser; the handlers are invoked
\* through the controls the page renders and enables.  The file input and
\* the upload button are rendered while no document is listed; the
\* document list, the reset button and the chat are rendered otherwise.
uploadSectionShown == currentDocuments = <<>>
chatShown == currentDocuments # <<>>

\* the file input (lines 217-223)
uiSelectFiles == uploadSectionShown /\ \E fs \in FileSeqs : setFiles(fs)

\* the upload button (lines 225-231)
uiUpload ==
  /\ uploadSectionShown
  /\ ~(loading \/ files = <<>> \/ backendStatus # "healthy")
  /\ uploadFiles

\* one Remove button per listed document (lines 200-210)
uiRemove ==
  \E k \in 1..Len(currentDocuments) : removeDocument(currentDocuments[k])

\* the Reset Chat button (lines 211-213)
uiReset == chatShown /\ resetChat

\* the question textarea (lines 277-285)
uiType == chatShown /\ ~loading /\ \E q \in Questions : setQuestion(q)

\* Enter in the textarea (handleKeyPress), or the Send button, which is
\* also disabled while the question is blank (lines 286-292)
uiAsk == chatShown /\ ~loading /\ askQuestion

\* the mount effect (lines 26-28) and the Refresh Backend Status button
\* (lines 300-302)
uiRefresh ==
  \E thrown \in BOOLEAN, s \in HealthStatuses : checkHealth(thrown, s)

Next ==
  \/ uiRefresh
  \/ uiSelectFiles
  \/ uiUpload
  \/ uiRemove
  \/ uiReset
  \/ uiType
  \/ uiAsk
  \/ Responses

Spec == Init /\ [][Next]_vars

\* SpecDirect: the handlers called as functions, in any state of the
\* component whatever the page renders, one call at a time: a call is made
\* only when no request is in flight.
Idle == InFlight = 0

NextDirect ==
  \/ Idle /\ \E thrown \in BOOLEAN, s \in HealthStatuses : checkHealth(thrown, s)
  \/ Idle /\ \E fs \in FileSeqs : setFiles(fs)
  \/ Idle /\ \E q \in Questions : setQuestion(q)
  \/ Idle /\ uploadFiles
  \/ Idle /\ \E d \in FileNames : removeDocument(d)
  \/ Idle /\ askQuestion
  \/ Idle /\ resetChat
  \/ Responses

SpecDirect == Init /\ [][NextDirect]_vars

\* SpecFair: Spec in which every /index and /ask request in flight
\* eventually completes: the awaited fetch settles, with a response or with
\* an exception, and the event loop then runs the continuation of the
\* handler that awaits it.  Nothing is assumed of /health and /clear-memory.
indexCompletes ==
  \E i \in 1..Len(indexReqs), o \in Outcomes :
    \E succeeded \in SUBSET (1..Len(indexReqs[i].files)) :
      uploadFilesResume(i, o, succeeded)

askCompletes ==
  \E i \in 1..Len(askReqs), o \in Outcomes, data \in AskData :
    askQuestionResume(i, o, data)

SpecFair ==
  /\ Spec
  /\ WF_vars(indexCompletes)
  /\ WF_vars(askCompletes)

\* ------------------------------------------------------------------ claims
TurnSeqs(conv) == {conv[k].seq : k \in 1..Len(conv)}

\* C1: in every reachable state, if currentDocuments is empty then the
\* conversation is empty (removing the last document leaves the session
\* Empty with its conversation cleared).
C1_EmptyDocumentsEmptyConversation ==
  currentDocuments = <<>> => conversation = <<>>

\* C2: once an ok /clear-memory response has been handled, no turn that was
\* in the conversation at that moment is ever in the conversation again.
C2_ForgottenTurnsStayGone ==
  TurnSeqs(conversation) \cap forgotten = {}

\* C3: at no time are two of the requests /index, /ask and /clear-memory in
\* flight together.
C3_OneMutatingRequestAtATime ==
  Len(indexReqs) + Len(askReqs) + resetReqs <= 1

\* C4: askQuestion invoked while currentDocuments is empty issues no /ask
\* request and leaves conversation, currentDocuments, files, question and
\* loading unchanged; only the status message may change.
C4_AskWithoutDocumentsHasNoEffect ==
  [][(askQuestion /\ currentDocuments = <<>>) =>
       UNCHANGED <<conversation, currentDocuments, files, question, loading,
                   backendStatus, askReqs, indexReqs, resetReqs,
                   nextSeq>>]_vars

\* askQuestion has refused for want of documents, with a question typed and
\* the backend healthy
C4_Witness ==
  /\ status = Msg("Please upload documents first before asking questions.", "")
  /\ currentDocuments = <<>>
  /\ ~IsBlank(question)
  /\ backendStatus = "healthy"
  /\ askReqs = <<>>

\* C5: a failed ask records no turn.  Issuing the request leaves the
\* conversation as it is, and handling a non-ok response or an exception
\* leaves the conversation exactly as it was before the response was
\* handled and the question input with the text that was sent.
C5_FailedAskRecordsNoTurn ==
  [][/\ askQuestion => UNCHANGED conversation
     /\ \A i \in 1..Len(askReqs), o \in {"error", "throw"}, data \in AskData :
          askQuestionResume(i, o, data) =>
            /\ conversation' = conversation
            /\ question' = question
            /\ question' = askReqs[i].question]_vars

\* a non-ok /ask response has been handled while the conversation held a
\* turn and the question was still in the input
C5_Witness ==
  /\ status = Msg("Error: ", "Failed to process question")
  /\ conversation # <<>>
  /\ ~IsBlank(question)
  /\ ~loading

\* C6: after removeDocument(d) the backend index no longer holds d.
C6_RemovedDocumentLeavesBackend ==
  [][\A d \in Range(currentDocuments) :
       removeDocument(d) => d \notin backendDocs']_vars

\* The largest window the asks of one run can overfill.
WindowSize == MaxAsks - 1

C8_ResetClearsOnlyConversation ==
  [][\A o \in Outcomes :
       resetChatResume(o) =>
         /\ currentDocuments' = currentDocuments
         /\ conversation' = IF o = "ok" THEN <<>> ELSE conversation]_vars

\* a reset has succeeded on a conversation that held a turn, and the
\* documents are still listed
C8_Witness ==
  /\ status = Msg("Chat reset successfully! AI has forgotten the previous conversation.", "")
  /\ forgotten # {}
  /\ conversation = <<>>
  /\ currentDocuments # <<>>

\* C9: after an ok /index response is handled, the documents listed as
\* current are exactly the documents of the request that were indexed.
C9_ListedDocumentsAreTheIndexedOnes ==
  [][\A i \in 1..Len(indexReqs) :
       \A succeeded \in SUBSET (1..Len(indexReqs[i].files)) :
         uploadFilesResume(i, "ok", succeeded) =>
           Range(currentDocuments') =
             {indexReqs[i].files[p].name : p \in succeeded}]_vars

\* C10: currentDocuments goes from empty to non-empty only in the handling
\* of an ok /index response; every handled ok /index response leaves it
\* non-empty and equal to the names of the files of that request, in the
\* order of the selection; askQuestion, resetChat and checkHealth, and the
\* handling of their responses, never change it.
C10_IndexedOnlyByIndexing ==
  [][/\ (currentDocuments = <<>> /\ currentDocuments' # <<>>) =>
          \E i \in 1..Len(indexReqs) :
            \E succeeded \in SUBSET (1..Len(indexReqs[i].files)) :
              uploadFilesResume(i, "ok", succeeded)
     /\ \A i \in 1..Len(indexReqs) :
          \A succeeded \in SUBSET (1..Len(indexReqs[i].files)) :
            uploadFilesResume(i, "ok", succeeded) =>
              /\ currentDocuments' # <<>>
              /\ Len(currentDocuments') = Len(indexReqs[i].files)
              /\ \A k \in 1..Len(indexReqs[i].files) :
                   currentDocuments'[k] = indexReqs[i].files[k].name
     /\ currentDocuments' # currentDocuments =>
          ~( \/ askQuestion
             \/ resetChat
             \/ \E i \in 1..Len(askReqs), o \in Outcomes, data \in AskData :
                  askQuestionResume(i, o, data)
             \/ \E o \in Outcomes : resetChatResume(o)
             \/ \E thrown \in BOOLEAN, s \in HealthStatuses :
                  checkHealth(thrown, s) )]_vars

\* an ok /index response for two files of different names has been handled
C10_Witness ==
  /\ status = Msg("document(s) indexed successfully!", "")
  /\ currentDocuments = <<"a", "b">>
  /\ indexReqs = <<>>

\* The turns of conv are in the order in which their /ask requests were
\* issued; no turn is there twice.
InIssueOrder(conv) ==
  \A j, k \in 1..Len(conv) : j < k => conv[j].seq < conv[k].seq

\* C11: turns are ordered by occurrence and never duplicated.  In every
\* reachable state the turns of the conversation appear in the order in
\* which their /ask requests were issued, and every handled ok /ask
\* response contributes exactly one turn, the last one, whose question is
\* the text sent in that request and whose sources are the response's list
\* (the empty list when the response has none); every other turn was in the
\* conversation when the request was issued.
C11_TurnsInIssueOrderOncePerAsk ==
  /\ []InIssueOrder(conversation)
  /\ [][\A i \in 1..Len(askReqs), data \in AskData :
          askQuestionResume(i, "ok", data) =>
            /\ conversation' # <<>>
            /\ conversation'[Len(conversation')] =
                 [seq |-> askReqs[i].seq,
                  question |-> askReqs[i].question,
                  answer |-> data.answer,
                  sources |-> IF data.hasSources THEN data.sources
                              ELSE <<>>]
            /\ Cardinality({k \in 1..Len(conversation') :
                              conversation'[k].seq = askReqs[i].seq}) = 1
            /\ TurnSeqs(conversation') \ TurnSeqs(askReqs[i].conversation)
                 = {askReqs[i].seq}]_vars

\* two ok /ask responses have been handled: the conversation holds the turn
\* of the first ask, answered without a list of sources, and then the turn
\* of the second, answered with one
C11_Witness ==
  /\ Len(conversation) = 2
  /\ conversation[1].seq = 1 /\ conversation[1].sources = <<>>
  /\ conversation[2].seq = 2 /\ conversation[2].sources # <<>>
  /\ status = Msg("Question answered successfully!", "")

\* C12: the loading flag tracks in-flight work and always clears.  loading
\* is true exactly while an /index or /ask request is in flight; every step
\* in which such a request completes, whether with an ok response, a non-ok
\* response or an exception, leaves loading false; and, every such request
\* eventually completing, whenever loading is true it is later false.
C12_LoadingTracksRequestsAndClears ==
  /\ [](loading <=> Len(indexReqs) + Len(askReqs) > 0)
  /\ [][Len(indexReqs') + Len(askReqs') < Len(indexReqs) + Len(askReqs)
          => ~loading']_vars
  /\ loading ~> ~loading

\* a non-ok /index response has been handled: loading is false again, and
\* the files are still selected
C12_Witness ==
  /\ status = Msg("Error: ", "Failed to index documents")
  /\ ~loading
  /\ files # <<>>
  /\ indexReqs = <<>>

\* C13: requests are issued only when their guards hold.  Every step that
\* issues an /index, /ask or /clear-memory request starts in a state where
\* backendStatus is "healthy"; an /index request is issued only with at
\* least one selected file, which it carries, and an /ask request only with
\* a question that is not blank, which it carries; a handler called while
\* one of its guards fails changes nothing except the status message.
C13_RequestsOnlyWhenGuardsHold ==
  [][/\ Len(indexReqs') > Len(indexReqs) =>
          /\ backendStatus = "healthy"
          /\ files # <<>>
          /\ indexReqs'[Len(indexReqs')].files = files
     /\ Len(askReqs') > Len(askReqs) =>
          /\ backendStatus = "healthy"
          /\ ~IsBlank(question)
          /\ askReqs'[Len(askReqs')].question = question
     /\ resetReqs' > resetReqs => backendStatus = "healthy"
     /\ \/ uploadFiles /\ (files = <<>> \/ backendStatus # "healthy")
        \/ askQuestion /\ (IsBlank(question) \/ backendStatus # "healthy"
                              \/ currentDocuments = <<>>)
        \/ resetChat /\ backendStatus # "healthy"
        => UNCHANGED <<files, question, conversation, loading, backendStatus,
                       currentDocuments, net, nextSeq, backendDocs,
                       forgotten>>]_vars

\* askQuestion has refused a question made of white space only, the backend
\* being healthy and a document listed
C13_Witness ==
  /\ status = Msg("Please enter a question", "")
  /\ question = <<" ">>
  /\ backendStatus = "healthy"
  /\ currentDocuments # <<>>
  /\ askReqs = <<>>

\* C14: indexing is all-or-nothing on the session state.  When the handling
\* of an /index request ends with a non-ok response or with an exception,
\* currentDocuments, the conversation and the selected files are left as
\* they were; when it ends with an ok response, the conversation and the
\* file selection are both emptied in the step that sets currentDocuments
\* to the names of the files that were sent.
C14_IndexingAllOrNothing ==
  [][\A i \in 1..Len(indexReqs), o \in Outcomes :
       \A succeeded \in SUBSET (1..Len(indexReqs[i].files)) :
         uploadFilesResume(i, o, succeeded) =>
           IF o = "ok"
             THEN /\ conversation' = <<>>
                  /\ files' = <<>>
                  /\ currentDocuments' =
                       [k \in 1..Len(indexReqs[i].files) |->
                          indexReqs[i].files[k].name]
             ELSE UNCHANGED <<currentDocuments, conversation, files>>]_vars

\* a non-ok /index response has been handled while the conversation held a
\* turn: the turn and the selected files are still there
C14_Witness ==
  /\ status = Msg("Error: ", "Failed to index documents")
  /\ conversation # <<>>
  /\ files # <<>>
  /\ indexReqs = <<>>

====
